---- MODULE Spec2Model ----
(***************************************************************************)
(* Model of the AI article generator: the two tool wrappers of tools.py    *)
(* (search, scrape), ArticleGenerator (__init__, generate) and the two     *)
(* hosts that drive it (the Streamlit script app.py and the __main__       *)
(* block of article_generator.py).                                         *)
(*                                                                         *)
(* Text.  A Python str is a sequence of runs [s, w, n]: the first w        *)
(* characters of the literal s, repeated n times.  A one-character run has *)
(* w = 1; a literal such as "... (truncated)" is one run with n = 1.  The  *)
(* empty string is << >>.  A "<" that opens a string is always a run of    *)
(* its own, so that startswith("<") is decided by the first run.           *)
(***************************************************************************)
EXTENDS Integers, Sequences, FiniteSets, TLC

VARIABLES host, env, hostPc, generator, max_iterations, agentMax,
          memory, session, pc, steps, action, provider, observation, final,
          result, propagated, session_article_html

vars == <<host, env, hostPc, generator, max_iterations, agentMax,
          memory, session, pc, steps, action, provider, observation, final,
          result, propagated, session_article_html>>

(***************************************************************************)
(* Bounds of the model and constants of the program.                       *)
(***************************************************************************)
MaxSessions == 2

\* the step counter of the model never passes this
StepCap == 20

DefaultMaxIterations == 15

max_length == 10000

(***************************************************************************)
(* Strings.                                                                *)
(***************************************************************************)
Lit(s, w) == <<[s |-> s, w |-> w, n |-> 1]>>

Rep(c, k) == IF k <= 0 THEN << >> ELSE <<[s |-> c, w |-> 1, n |-> k]>>

RECURSIVE StrLen(_)
StrLen(str) ==
  IF str = << >> THEN 0
  ELSE Head(str).w * Head(str).n + StrLen(Tail(str))

\* str[:k]
RECURSIVE Slice(_, _)
Slice(str, k) ==
  IF k <= 0 \/ str = << >> THEN << >>
  ELSE LET r == Head(str)
           full == r.w * r.n
       IN IF full <= k THEN <<r>> \o Slice(Tail(str), k - full)
          ELSE IF r.w = 1 THEN <<[r EXCEPT !.n = k]>>
          ELSE IF r.n = 1 THEN <<[r EXCEPT !.w = k]>>
          ELSE <<[r EXCEPT !.n = k \div r.w]>>
               \o (IF k % r.w = 0 THEN << >>
                   ELSE <<[s |-> r.s, w |-> k % r.w, n |-> 1]>>)

Whitespace == {" ", "\n", "\t"}

IsSpace(r) == r.w = 1 /\ r.s \in Whitespace

RECURSIVE LStrip(_)
LStrip(str) ==
  IF str = << >> THEN << >>
  ELSE IF IsSpace(Head(str)) THEN LStrip(Tail(str))
  ELSE str

RECURSIVE RStrip(_)
RStrip(str) ==
  IF str = << >> THEN << >>
  ELSE IF IsSpace(str[Len(str)]) THEN RStrip(SubSeq(str, 1, Len(str) - 1))
  ELSE str

\* str.strip()
Strip(str) == RStrip(LStrip(str))

\* str.startswith(c) for a one-character c
StartsWith(str, c) == str # << >> /\ str[1].w = 1 /\ str[1].s = c

\* json.dumps({key: value}) for a string value without characters to escape
JsonDumps(key, value) ==
  Lit("{\"", 2) \o key \o Lit("\": \"", 4) \o value \o Lit("\"}", 2)

(***************************************************************************)
(* What the outside world can answer.                                      *)
(***************************************************************************)
\* str(e) of an exception
Messages == {<< >>, Lit("timed out", 9)}

\* what conn.request / getresponse / read / decode of search can do: raise
\* (OSError for the transport, ValueError for a header value that cannot be
\* sent or a body that cannot be decoded) or answer with a status and a body
SearchOutcomes ==
  {[kind |-> "raise", exc |-> e, msg |-> m, status |-> 0, body |-> << >>] :
     e \in {"OSError", "ValueError"}, m \in Messages}
  \cup
  {[kind |-> "response", exc |-> "", msg |-> << >>, status |-> 200,
    body |-> Lit("{\"", 2) \o Lit("organic", 7) \o Lit("\": [", 4)
             \o Lit("{\"", 2) \o Lit("title", 5) \o Lit("\": \"", 4)
             \o Lit("Solar", 5) \o Lit("\"}", 2) \o Lit("]}", 2)],
   [kind |-> "response", exc |-> "", msg |-> << >>, status |-> 403,
    body |-> Lit("{\"", 2) \o Lit("message", 7) \o Lit("\": \"", 4)
             \o Lit("Unauthorized.", 13) \o Lit("\", \"", 4)
             \o Lit("statusCode", 10) \o Lit("\": 403}", 7)],
   [kind |-> "response", exc |-> "", msg |-> << >>, status |-> 502,
    body |-> Lit("<", 1) \o Lit("html>Bad Gateway</html>", 23)],
   [kind |-> "response", exc |-> "", msg |-> << >>, status |-> 500,
    body |-> << >>]}

\* scraped pages: around the limit in one run and in two
Contents ==
  {Rep("a", 1), Rep(" ", 2), Rep("a", max_length - 1), Rep("a", max_length),
   Rep("a", max_length + 1),
   Rep("a", max_length - 1) \o Rep("b", 2),
   Rep("a", max_length) \o Rep("b", 3),
   Rep("a", 2) \o Rep("b", max_length)}

\* what firecrawl_app.scrape_url can do: raise, or return a dict whose
\* "markdown" entry is absent, None or a string
ScrapeOutcomes ==
  {[kind |-> "raise", md |-> "", text |-> << >>, msg |-> m] : m \in Messages}
  \cup
  {[kind |-> "ok", md |-> k, text |-> << >>, msg |-> << >>] :
     k \in {"absent", "none", "str"}}
  \cup
  {[kind |-> "ok", md |-> "str", text |-> c, msg |-> << >>] : c \in Contents}

(***************************************************************************)
(* tools.py                                                                *)
(***************************************************************************)
\* module level: firecrawl_app is built when tools is imported
ToolsImport(e) ==
  IF e.FIRECRAWL_API_KEY = "missing" THEN "KeyError"
  ELSE IF e.FIRECRAWL_API_KEY = "empty" THEN "ValueError"
  ELSE "ok"

Search(serper_api_key, o) ==
  IF serper_api_key = "missing"
    THEN JsonDumps(Lit("error", 5), Lit("SERPER_API_KEY not found", 24))
  ELSE IF serper_api_key = "empty"
    THEN JsonDumps(Lit("error", 5),
                   Lit("SERPER_API_KEY is not set in the environment.", 45))
  ELSE IF o.kind = "raise" /\ o.exc = "KeyError"
    THEN JsonDumps(Lit("error", 5), Lit("SERPER_API_KEY not found", 24))
  ELSE IF o.kind = "raise" /\ o.exc = "ValueError"
    THEN JsonDumps(Lit("error", 5), o.msg)
  ELSE IF o.kind = "raise"
    THEN JsonDumps(Lit("error", 5), Lit("Search failed: ", 15) \o o.msg)
  ELSE o.body

TruncateNoMarker(markdown_content) ==
  IF StrLen(markdown_content) > max_length
    THEN Slice(markdown_content, max_length)
    ELSE markdown_content

Truncate(markdown_content) ==
  IF StrLen(markdown_content) > max_length
    THEN Slice(markdown_content, max_length) \o Lit("... (truncated)", 15)
    ELSE markdown_content

\* scrape_result.get("markdown", "")
GetMarkdown(o) == IF o.md = "str" THEN o.text ELSE << >>

ScrapeNoEmptyCheck(o) ==
  IF o.kind = "raise"
    THEN JsonDumps(Lit("error", 5), Lit("Scraping failed: ", 17) \o o.msg)
    ELSE Truncate(GetMarkdown(o))

Scrape(o) ==
  IF o.kind = "raise"
    THEN JsonDumps(Lit("error", 5), Lit("Scraping failed: ", 17) \o o.msg)
  ELSE IF GetMarkdown(o) # << >>
    THEN Truncate(GetMarkdown(o))
  ELSE JsonDumps(Lit("warning", 7), Lit("No markdown content found", 25))

(***************************************************************************)
(* article_generator.py: the pure parts                                    *)
(***************************************************************************)
\* ArticleGenerator.__init__: the key check, then the library constructors
GeneratorInit(e, ok) ==
  IF e.OPENAI_API_KEY = "missing" THEN "KeyError"
  ELSE IF e.OPENAI_API_KEY = "empty" THEN "ValueError"
  ELSE IF ~ok THEN "Exception"
  ELSE "ok"

AgentMaxIterationsOffByOne(m) == m + 1

\* ReActAgent.from_tools(..., max_iterations=max_iterations, ...)
AgentMaxIterations(m) == m

Wrap(text) == Lit("<", 1) \o Lit("p>", 2) \o text \o Lit("</p>", 4)

PostProcessNoWrap(article_html) == article_html

PostProcessAlwaysWrap(article_html) == Wrap(article_html)

\* generate, lines 103-108
PostProcess(article_html) ==
  IF ~StartsWith(Strip(article_html), "<")
    THEN Wrap(article_html)
    ELSE article_html

\* generate, line 111
ErrorParagraph(e) ==
  Lit("<", 1) \o Lit("p>Error generating article: ", 28) \o e \o Lit("</p>", 4)

\* what the reasoning engine can give as its final answer
Texts ==
  {<< >>,
   Rep(" ", 3),
   Lit("I was unable to generate the article.", 37),
   Rep(" ", 1) \o Lit("Here is the HTML article:", 25),
   Lit("<", 1) \o Lit("h1>Solar</h1>", 13),
   Lit("<", 1) \o Lit("h1>Solar</h1>", 13) \o Rep("\n", 1),
   Rep("\n", 1) \o Rep(" ", 2) \o Lit("<", 1) \o Lit("h1>Solar</h1>", 13)}

(***************************************************************************)
(* State.                                                                  *)
(*   host, env        which script runs, and os.environ after load_dotenv  *)
(*   hostPc           where the host script is                             *)
(*   generator        "none" or "created" (st.session_state / generator)   *)
(*   max_iterations   the argument ArticleGenerator was built with         *)
(*   agentMax         the bound the agent was built with                   *)
(*   memory           the chat memory of self.agent                        *)
(*   session          generate() calls begun so far                        *)
(*   pc, steps, action, provider, observation, final                       *)
(*                    the running agent.chat(): loop state, step counter,  *)
(*                    tool chosen, what the provider answered, the tool's  *)
(*                    returned text, and how the loop ended                *)
(*   result           what generate() returned                             *)
(*   propagated       an exception left generate()                         *)
(*   session_article_html   st.session_state.article_html                  *)
(***************************************************************************)
Keys == {"OPENAI_API_KEY", "SERPER_API_KEY", "FIRECRAWL_API_KEY"}

NoOutcome == [kind |-> "none"]

NoFinal == [kind |-> "none", v |-> << >>]

Init ==
  /\ host \in {"app", "main"}
  /\ env \in [Keys -> {"missing", "empty", "set"}]
  /\ hostPc = "start"
  /\ generator = "none"
  /\ max_iterations = 0
  /\ agentMax = 0
  /\ memory = << >>
  /\ session = 0
  /\ pc = "idle"
  /\ steps = 0
  /\ action = "none"
  /\ provider = NoOutcome
  /\ observation = << >>
  /\ final = NoFinal
  /\ result = << >>
  /\ propagated = FALSE
  /\ session_article_html = << >>

loopVars == <<pc, steps, action, provider, observation, final, result, propagated>>

genVars == <<generator, max_iterations, agentMax, memory>>

\* ArticleGenerator(): self.agent is built once, with an empty chat memory
Construct ==
  /\ generator' = "created"
  /\ max_iterations' = DefaultMaxIterations
  /\ agentMax' = AgentMaxIterations(DefaultMaxIterations)
  /\ memory' = << >>

(***************************************************************************)
(* app.py: one run of the script up to the widgets (lines 9-60).           *)
(***************************************************************************)
API_KEYS_PRESENT == \A k \in Keys : env[k] # "missing"

API_KEYS_SET == \A k \in Keys : env[k] = "set"

AppRun ==
  /\ host = "app" /\ hostPc = "start"
  /\ IF ~API_KEYS_PRESENT
       THEN hostPc' = "stopped" /\ UNCHANGED genVars
     ELSE IF ~API_KEYS_SET
       THEN hostPc' = "notready" /\ UNCHANGED genVars
     ELSE IF generator = "created"
       THEN hostPc' = "ready" /\ UNCHANGED genVars
     ELSE \E ok \in BOOLEAN :
            IF ToolsImport(env) = "ok" /\ GeneratorInit(env, ok) = "ok"
              THEN hostPc' = "ready" /\ Construct
              ELSE hostPc' = "notready" /\ UNCHANGED genVars
  /\ UNCHANGED <<host, env, session, loopVars, session_article_html>>

\* the run ends with no click (or with the button disabled, or at st.stop);
\* the next interaction runs the script again
AppRerun ==
  /\ host = "app" /\ hostPc \in {"stopped", "notready", "ready"}
  /\ hostPc' = "start"
  /\ UNCHANGED <<host, env, genVars, session, loopVars, session_article_html>>

\* generate(keywords) is entered: a new agent.chat(prompt) on self.agent
GenerateBegin ==
  /\ session' = session + 1
  /\ pc' = "thinking"
  /\ steps' = 0
  /\ action' = "none"
  /\ provider' = NoOutcome
  /\ observation' = << >>
  /\ final' = NoFinal
  /\ result' = << >>
  /\ propagated' = FALSE

\* lines 74-83: the button was clicked with keywords entered
AppGenerate ==
  /\ host = "app" /\ hostPc = "ready" /\ pc = "idle"
  /\ session < MaxSessions
  /\ hostPc' = "generating"
  /\ GenerateBegin
  /\ UNCHANGED <<host, env, genVars, session_article_html>>

\* generate() has returned: its locals and the chat()'s working state are gone
Forget ==
  /\ pc' = "idle"
  /\ steps' = 0
  /\ action' = "none"
  /\ provider' = NoOutcome
  /\ observation' = << >>
  /\ final' = NoFinal
  /\ result' = << >>
  /\ propagated' = FALSE

SorryParagraph(e) ==
  Lit("<", 1) \o Lit("p>Sorry, an error occurred during generation: ", 46)
  \o e \o Lit("</p>", 4)

\* lines 82-91, then the display; the script has run to its end
AppStore ==
  /\ host = "app" /\ hostPc = "generating" /\ pc = "returned"
  /\ session_article_html' =
       IF propagated THEN SorryParagraph(final.v) ELSE result
  /\ hostPc' = "start"
  /\ Forget
  /\ UNCHANGED <<host, env, genVars, session>>

(***************************************************************************)
(* article_generator.py run as a script (lines 8, 114-122).                *)
(***************************************************************************)
MainRun ==
  /\ host = "main" /\ hostPc = "start"
  /\ \E ok \in BOOLEAN :
       IF ToolsImport(env) = "ok" /\ GeneratorInit(env, ok) = "ok"
         THEN hostPc' = "ready" /\ Construct
         ELSE hostPc' = "crashed" /\ UNCHANGED genVars
  /\ UNCHANGED <<host, env, session, loopVars, session_article_html>>

MainGenerate ==
  /\ host = "main" /\ hostPc = "ready" /\ pc = "idle" /\ session = 0
  /\ hostPc' = "generating"
  /\ GenerateBegin
  /\ UNCHANGED <<host, env, genVars, session_article_html>>

MainPrint ==
  /\ host = "main" /\ hostPc = "generating" /\ pc = "returned"
  /\ hostPc' = IF propagated THEN "crashed" ELSE "exited"
  /\ Forget
  /\ UNCHANGED <<host, env, genVars, session, session_article_html>>

(***************************************************************************)
(* The agent loop behind self.agent.chat(prompt) (line 98):                *)
(* THINKING -> ACTING -> OBSERVING -> THINKING ... -> DONE, or the         *)
(* max-iterations end.  A step is counted when the reasoning engine is     *)
(* asked for its next action.                                              *)
(***************************************************************************)
hostVars == <<host, env, hostPc, session, session_article_html>>

\* THINKING -> ACTING: the engine asks for a tool
ThinkTool ==
  /\ pc = "thinking" /\ steps < StepCap
  /\ steps' = steps + 1
  /\ \E tool \in {"search", "scrape"} : action' = tool
  /\ pc' = "acting"
  /\ UNCHANGED <<provider, observation, final, result, propagated>>
  /\ UNCHANGED <<hostVars, genVars>>

\* THINKING -> DONE: the engine answers without asking for a tool
ThinkAnswer ==
  /\ pc = "thinking" /\ steps < StepCap
  /\ steps' = steps + 1
  /\ \E text \in Texts : final' = [kind |-> "text", v |-> text]
  /\ action' = "none"
  /\ pc' = "done"
  /\ UNCHANGED <<provider, observation, result, propagated>>
  /\ UNCHANGED <<hostVars, genVars>>

\* the LLM call fails (a rejected key, a transport error, ...)
ThinkRaise ==
  /\ pc = "thinking" /\ steps < StepCap
  /\ steps' = steps + 1
  /\ \E m \in Messages : final' = [kind |-> "exc", v |-> m]
  /\ action' = "none"
  /\ pc' = "raised"
  /\ UNCHANGED <<provider, observation, result, propagated>>
  /\ UNCHANGED <<hostVars, genVars>>

\* ACTING -> OBSERVING with search(query)
ActSearch ==
  /\ pc = "acting" /\ action = "search"
  /\ \E o \in SearchOutcomes :
       /\ provider' = o
       /\ observation' = Search(env.SERPER_API_KEY, o)
  /\ pc' = "observing"
  /\ UNCHANGED <<steps, action, final, result, propagated>>
  /\ UNCHANGED <<hostVars, genVars>>

\* ACTING -> OBSERVING with scrape(url)
ActScrape ==
  /\ pc = "acting" /\ action = "scrape"
  /\ \E o \in ScrapeOutcomes :
       /\ provider' = o
       /\ observation' = Scrape(o)
  /\ pc' = "observing"
  /\ UNCHANGED <<steps, action, final, result, propagated>>
  /\ UNCHANGED <<hostVars, genVars>>

LimitNever(s, m) == FALSE

LimitReached(s, m) == s >= m

\* OBSERVING -> THINKING
ObserveContinue ==
  /\ pc = "observing"
  /\ ~LimitReached(steps, agentMax)
  /\ pc' = "thinking"
  /\ UNCHANGED <<steps, action, provider, observation, final, result, propagated>>
  /\ UNCHANGED <<hostVars, genVars>>

\* OBSERVING with the bound reached: the loop ends with a partial answer or
\* with a failure
ObserveMax ==
  /\ pc = "observing"
  /\ LimitReached(steps, agentMax)
  /\ \/ /\ \E text \in Texts : final' = [kind |-> "text", v |-> text]
        /\ pc' = "done"
     \/ /\ final' = [kind |-> "exc", v |-> Lit("Reached max iterations.", 23)]
        /\ pc' = "raised"
  /\ UNCHANGED <<steps, action, provider, observation, result, propagated>>
  /\ UNCHANGED <<hostVars, genVars>>

\* self.agent is the one agent of the generator: a chat() that ends with an
\* answer leaves its prompt and its answer in the agent's chat memory
AgentRemember(mem, s) ==
  mem \o <<[role |-> "user", session |-> s], [role |-> "assistant", session |-> s]>>

\* what the reasoning engine is shown when a chat() begins
Transcript == memory \o <<[role |-> "user", session |-> session]>>

\* generate, lines 98-108
GenerateReturn ==
  /\ pc = "done"
  /\ memory' = AgentRemember(memory, session)
  /\ result' = PostProcess(final.v)
  /\ pc' = "returned"
  /\ UNCHANGED <<steps, action, provider, observation, final, propagated>>
  /\ UNCHANGED <<hostVars, generator, max_iterations, agentMax>>

GenerateExceptReraise ==
  /\ pc = "raised"
  /\ propagated' = TRUE
  /\ pc' = "returned"
  /\ UNCHANGED <<steps, action, provider, observation, final, result>>
  /\ UNCHANGED <<hostVars, genVars>>

\* generate, lines 109-111
GenerateExcept ==
  /\ pc = "raised"
  /\ result' = ErrorParagraph(final.v)
  /\ pc' = "returned"
  /\ UNCHANGED <<steps, action, provider, observation, final, propagated>>
  /\ UNCHANGED <<hostVars, genVars>>

SessionStep ==
  \/ ThinkTool \/ ThinkAnswer \/ ThinkRaise
  \/ ActSearch \/ ActScrape
  \/ ObserveContinue \/ ObserveMax
  \/ GenerateReturn \/ GenerateExcept

Next ==
  \/ AppRun \/ AppRerun \/ AppGenerate \/ AppStore
  \/ MainRun \/ MainGenerate \/ MainPrint
  \/ ThinkTool \/ ThinkAnswer \/ ThinkRaise
  \/ ActSearch \/ ActScrape
  \/ ObserveContinue \/ ObserveMax
  \/ GenerateReturn \/ GenerateExcept

Spec == Init /\ [][Next]_vars

\* every LLM call and every tool call returns
FairSpec == Spec /\ WF_vars(SessionStep)

(***************************************************************************)
(* Reading a text back, for the properties below.                          *)
(***************************************************************************)
\* the text's first character that is not whitespace is c
FirstVisibleIs(text, c) ==
  \E i \in 1..Len(text) :
    /\ text[i].w = 1 /\ text[i].s = c
    /\ \A j \in 1..(i - 1) : text[j].w = 1 /\ text[j].s \in {" ", "\n", "\t"}

\* the text is a JSON object with the given top-level key
HasKey(text, key) ==
  /\ Len(text) >= 3
  /\ text[1].s = "{\""
  /\ \E i \in 2..Len(text) :
       /\ text[i].s = key
       /\ (i = 2 \/ text[i - 1].s = "\", \"")

\* the first k characters of a and of b are the same
RECURSIVE SamePrefix(_, _, _)
SamePrefix(a, b, k) ==
  IF k <= 0 THEN TRUE
  ELSE IF a = << >> \/ b = << >> THEN FALSE
  ELSE LET ra == Head(a)
           rb == Head(b)
       IN IF ra.w = 1 /\ rb.w = 1
            THEN LET m == IF ra.n < rb.n THEN ra.n ELSE rb.n
                     d == IF m < k THEN m ELSE k
                     resta == IF ra.n > d THEN <<[ra EXCEPT !.n = ra.n - d]>> \o Tail(a)
                              ELSE Tail(a)
                     restb == IF rb.n > d THEN <<[rb EXCEPT !.n = rb.n - d]>> \o Tail(b)
                              ELSE Tail(b)
                 IN ra.s = rb.s /\ SamePrefix(resta, restb, k - d)
            ELSE ra = rb /\ SamePrefix(Tail(a), Tail(b), k - ra.w * ra.n)

ScrapeObserved == pc = "observing" /\ action = "scrape"

SearchObserved == pc = "observing" /\ action = "search"

C2_SessionStartsFromOwnPrompt ==
  (pc = "thinking" /\ steps = 0) =>
    Transcript = <<[role |-> "user", session |-> session]>>

(***************************************************************************)
(* C3.  As claimed: a search or scrape call during which a failure occurs  *)
(* (key missing or empty, transport failure, failure response of the       *)
(* provider) returns a JSON object with an "error" key, for scrape with    *)
(* the message prefixed "Scraping failed: ".                               *)
(***************************************************************************)
C3_FailureGivesErrorObject ==
  /\ (SearchObserved /\ (\/ env.SERPER_API_KEY # "set"
                         \/ provider.kind = "raise"
                         \/ provider.status >= 400))
       => HasKey(observation, "error")
  /\ (ScrapeObserved /\ provider.kind = "raise")
       => (HasKey(observation, "error") /\ observation[4].s = "Scraping failed: ")

(***************************************************************************)
(* C4.  As claimed: with any of the three keys missing from the            *)
(* environment no generator is created and generate() is never run.        *)
(***************************************************************************)
C4_MissingKeyNoGenerator ==
  (\E k \in Keys : env[k] = "missing") => (generator = "none" /\ session = 0)

(***************************************************************************)
(* C5.  The loop takes at most max_iterations steps; with the counter at   *)
(* max_iterations after a step, the next transition ends the loop (with an *)
(* answer or with a failure) and no further step or tool call is made.     *)
(***************************************************************************)
C5_StepsBounded ==
  /\ [](steps <= max_iterations)
  /\ [][(pc = "observing" /\ steps >= max_iterations) =>
          (/\ pc' \in {"done", "raised"}
           /\ final'.kind \in {"text", "exc"}
           /\ steps' = steps
           /\ observation' = observation)]_vars

C5_Witness ==
  /\ pc = "raised" /\ steps = 15 /\ action = "search"
  /\ final.v = <<[s |-> "Reached max iterations.", w |-> 23, n |-> 1]>>

(***************************************************************************)
(* C6.  An exception raised during the session never leaves generate():    *)
(* generate() returns <p>Error generating article: MESSAGE</p>, and the    *)
(* session takes no further step.                                          *)
(***************************************************************************)
C6_ExceptionBecomesParagraph ==
  /\ [](~propagated)
  /\ []((pc = "returned" /\ final.kind = "exc") =>
          result = <<[s |-> "<", w |-> 1, n |-> 1],
                     [s |-> "p>Error generating article: ", w |-> 28, n |-> 1]>>
                   \o final.v \o <<[s |-> "</p>", w |-> 4, n |-> 1]>>)
  /\ [][pc = "raised" =>
          (/\ pc' = "returned"
           /\ steps' = steps /\ action' = action /\ observation' = observation)]_vars

C6_Witness ==
  /\ pc = "returned" /\ final.kind = "exc"
  /\ final.v = <<[s |-> "timed out", w |-> 9, n |-> 1]>>
  /\ Len(result) = 4

(***************************************************************************)
(* C7.  scrape on content longer than 10,000 characters returns its first  *)
(* 10,000 characters followed by "... (truncated)"; nonempty content of at *)
(* most 10,000 characters is returned unchanged.                           *)
(***************************************************************************)
C7_ScrapeTruncates ==
  (ScrapeObserved /\ provider.kind = "ok" /\ provider.md = "str"
     /\ provider.text # << >>) =>
    IF StrLen(provider.text) > 10000
      THEN /\ StrLen(observation) = 10000 + 15
           /\ SamePrefix(observation, provider.text, 10000)
           /\ observation[Len(observation)]
                = [s |-> "... (truncated)", w |-> 15, n |-> 1]
      ELSE observation = provider.text

C7_Witness ==
  /\ ScrapeObserved /\ provider.kind = "ok"
  /\ StrLen(provider.text) = 10002
  /\ StrLen(observation) = 10015

(***************************************************************************)
(* C8.  scrape with empty or absent content returns the warning payload    *)
(* {"warning": "No markdown content found"}; scrape never returns the      *)
(* empty string.                                                           *)
(***************************************************************************)
C8_ScrapeNeverEmpty ==
  ScrapeObserved =>
    /\ observation # << >>
    /\ (provider.kind = "ok" /\ (provider.md # "str" \/ provider.text = << >>))
         => observation = <<[s |-> "{\"", w |-> 2, n |-> 1],
                            [s |-> "warning", w |-> 7, n |-> 1],
                            [s |-> "\": \"", w |-> 4, n |-> 1],
                            [s |-> "No markdown content found", w |-> 25, n |-> 1],
                            [s |-> "\"}", w |-> 2, n |-> 1]>>

C8_Witness ==
  /\ ScrapeObserved /\ provider.kind = "ok" /\ provider.md = "none"
  /\ HasKey(observation, "warning")

(***************************************************************************)
(* C9.  The post-processing of generate() never wraps twice: a terminal    *)
(* text that begins with '<' is returned unchanged, and post-processing    *)
(* what generate() returned gives it back unchanged.                       *)
(***************************************************************************)
C9_PostProcessIdempotent ==
  pc = "returned" =>
    /\ PostProcess(result) = result
    /\ (final.kind = "text" /\ final.v # << >> /\ final.v[1].s = "<")
         => result = final.v

C9_Witness ==
  /\ pc = "returned" /\ final.kind = "text"
  /\ final.v # << >> /\ final.v[1].s = "<"
  /\ result = final.v

(***************************************************************************)
(* C10.  When every LLM call and every tool call returns, a session that   *)
(* has begun reaches the end of the loop and generate() returns.           *)
(***************************************************************************)
C10_SessionTerminates ==
  (pc \in {"thinking", "acting", "observing"}) ~> (pc = "returned")

C10_Witness ==
  /\ pc = "returned" /\ final.kind = "text" /\ steps = 15
  /\ action = "scrape" /\ result # << >>

====
